---- MODULE Spec2Model ----
(***************************************************************************)
(* A model of scenarigo's deferred-value synchronisation                   *)
(* (template/lazy.go: Lazy, waitContext) and of its path-aware error model *)
(* (errors/error.go: PathError, MultiPathError and the wrapping helpers).   *)
(*                                                                         *)
(* The specifications share the variables:                                 *)
(*   Spec       executeLazyTemplate followed by sequential Lazy invocations *)
(*   SpecWC     one waitContext driven by direct calls of set               *)
(*   SpecErr    the error helpers applied to a heap of error objects        *)
(*   SpecFmt    SpecErr with wrap messages that hold a formatting verb      *)
(*   SpecAssert the assertions And and Or, which aggregate with Errors      *)
(*   SpecConc   the returned Lazy invoked from several goroutines at once    *)
(*   SpecFair   SpecConc under a scheduler that is fair to every goroutine   *)
(*   SpecAgg    errors created and aggregated with Errors                    *)
(***************************************************************************)
EXTENDS Integers, Sequences, FiniteSets, TLC

----------------------------------------------------------------------------
(* Bounds of the model *)

\* actual values handed to a Lazy are 1..NumVals
NumVals == 2
\* a template dereferences at most MaxTmplLen keys
MaxTmplLen == 2
\* invocations of the returned Lazy
MaxCalls == 2
\* direct calls of waitContext.set in SpecWC
MaxSets == 2
\* calls of the error package's functions
MaxOps == 3
\* children handed to Errors
MaxChildren == 2

----------------------------------------------------------------------------
(* template/lazy.go *)

VARIABLES
    tmpl,         \* the template: the keys its evaluation extracts, in order
    ctxDone,      \* ctx.Done() is closed (the deadline elapsed)
    nAttempts,    \* evaluation attempts started (calls of executeTemplate)
    ready,        \* waitContext.ready: buffered channel of capacity 1
    blockedFired, \* waitContext.blocked() is closed (cancel() was called)
    setOnce,      \* waitContext.setOnce has run
    onceValue,    \* the result cached by sync.OnceValues, or NotCalled
    wpc,          \* position of the worker goroutine of each attempt
    wobs,         \* what the worker's ExtractByKey calls returned so far
    wres,         \* the templateResult the worker sends on its done channel
    branch,       \* which select case resolved extractActualValue
    mpc,          \* position of executeLazyTemplate
    mret,         \* what executeLazyTemplate returned
    once,         \* the closure's sync.Once has run
    done,         \* the closure's captured variable done: an attempt's channel
    ipc,          \* position of each Lazy invocation
    iv,           \* argument v of each invocation
    ic,           \* local variable c of each invocation (0: nil)
    ich,          \* the channel an invocation receives from
    ires,         \* what each invocation returned
    setLog,       \* history: the calls of set on each waitContext, in order
    setEarly,     \* history: a value was delivered before ctx.Done() closed
    nSets         \* direct calls of set made so far (SpecWC)

\* errors/error.go
VARIABLES
    heap,         \* the error objects allocated so far; an error is its index
    panicked,     \* a nil-pointer dereference ended the program
    nOps,         \* operations applied so far
    held,         \* the errors the calling program holds: what calls returned
    last,         \* history: the last operation, its input and its result
    hist          \* history: the prefixes appendPath received, per PathError

errVars == <<heap, held, panicked, nOps, last, hist>>

lazyVars == <<tmpl, ctxDone, nAttempts, ready, blockedFired, setOnce, onceValue,
              wpc, wobs, wres, branch, mpc, mret, once, done, ipc, iv, ic, ich,
              ires, setLog, setEarly, nSets>>

Nil == 0
Vals == 1..NumVals
\* "$" is the actual-value marker, "a" a key of the base data, "x" a missing key
Keys == {"$", "a", "x"}
Data == [k \in {"a"} |-> NumVals + 1]
Templates == UNION {[1..n -> Keys] : n \in 0..MaxTmplLen}
\* executeLazyTemplate starts one attempt, every later invocation one more
MaxAttempts == MaxCalls
Attempts == 1..MaxAttempts
Calls == 1..MaxCalls

NotCalled == [v |-> Nil, ok |-> FALSE, called |-> FALSE]
\* a fault of Found: `return v, false`
Found_NotOk(v) == [v |-> v, ok |-> FALSE, called |-> TRUE]
\* a fault of NotFound: `return nil, true`
NotFound_Ok == [v |-> Nil, ok |-> TRUE, called |-> TRUE]
Found(v) == [v |-> v, ok |-> TRUE, called |-> TRUE]
NotFound == [v |-> Nil, ok |-> FALSE, called |-> TRUE]
Outcome(o) == [v |-> o.v, ok |-> o.ok]

NoErr == "nil"
ErrTwice == "set an actual value twice"
ErrEval == "evaluation failed"
NoResult == [v |-> <<>>, err |-> "none"]

\* t.execute: the value built from the extracted values, or an error when an
\* extraction failed
TemplateResult(obs) ==
    IF \A i \in 1..Len(obs) : obs[i].ok
    THEN [v |-> [i \in 1..Len(obs) |-> obs[i].v], err |-> NoErr]
    ELSE [v |-> <<>>, err |-> ErrEval]

\* a fault of Extract: the error of the lookup is dropped, `return res, true`
Extract_ErrDropped(key) ==
    IF key \in DOMAIN Data THEN [v |-> Data[key], ok |-> TRUE]
    ELSE [v |-> Nil, ok |-> TRUE]

\* res, err := queryutil.New().Key(key).Extract(c.any); (nil, false) on err
Extract(key) ==
    IF key \in DOMAIN Data THEN [v |-> Data[key], ok |-> TRUE]
    ELSE [v |-> Nil, ok |-> FALSE]

\* eager evaluation of template t with the marker resolved to outcome o
Eager(t, o) ==
    TemplateResult([i \in 1..Len(t) |-> IF t[i] = "$" THEN o ELSE Extract(t[i])])

NumDerefs(t) == Cardinality({i \in 1..Len(t) : t[i] = "$"})

----------------------------------------------------------------------------
(* executeTemplate and the worker goroutine it starts *)

\* newWaitContext and `go func() { ... }()` for attempt a
StartAttempt(a) ==
    /\ nAttempts' = a
    /\ ready' = [ready EXCEPT ![a] = <<>>]
    /\ blockedFired' = [blockedFired EXCEPT ![a] = FALSE]
    /\ setOnce' = [setOnce EXCEPT ![a] = FALSE]
    /\ onceValue' = [onceValue EXCEPT ![a] = NotCalled]
    /\ wpc' = [wpc EXCEPT ![a] = "run"]
    /\ wobs' = [wobs EXCEPT ![a] = <<>>]

NextKey(a) == tmpl[Len(wobs[a]) + 1]

\* a fault of IsMarker: a key of the base data is taken for the marker too
IsMarker_AnyKey(key) == key \in {"$", "a"}

\* if key == "$"
IsMarker(key) == key = "$"

\* ExtractByKey(key) for key # "$"
WorkerLookup(a) ==
    /\ wpc[a] = "run"
    /\ Len(wobs[a]) < Len(tmpl)
    /\ ~IsMarker(NextKey(a))
    /\ wobs' = [wobs EXCEPT ![a] = Append(@, Extract(NextKey(a)))]
    /\ UNCHANGED <<tmpl, ctxDone, nAttempts, ready, blockedFired, setOnce,
                   onceValue, wpc, wres, branch, mpc, mret, once, done, ipc,
                   iv, ic, ich, ires, setLog, setEarly, nSets>>
    /\ UNCHANGED errVars

\* a fault of WorkerDeref: no sync.OnceValues, every ExtractByKey("$") runs
\* the function again
WorkerDeref_NoCache(a) ==
    /\ wpc[a] = "run"
    /\ Len(wobs[a]) < Len(tmpl)
    /\ IsMarker(NextKey(a))
    /\ blockedFired' = [blockedFired EXCEPT ![a] = TRUE]
    /\ wpc' = [wpc EXCEPT ![a] = "wait"]
    /\ UNCHANGED <<tmpl, ctxDone, nAttempts, ready, setOnce, onceValue, wobs,
                   wres, branch, mpc, mret, once, done, ipc, iv, ic, ich, ires,
                   setLog, setEarly, nSets>>
    /\ UNCHANGED errVars

\* ExtractByKey("$"): sync.OnceValues returns the cached pair, or runs the
\* function: cancel() closes blocked, then the select waits
WorkerDeref(a) ==
    /\ wpc[a] = "run"
    /\ Len(wobs[a]) < Len(tmpl)
    /\ IsMarker(NextKey(a))
    /\ IF onceValue[a].called
       THEN /\ wobs' = [wobs EXCEPT ![a] = Append(@, Outcome(onceValue[a]))]
            /\ UNCHANGED <<blockedFired, wpc>>
       ELSE /\ blockedFired' = [blockedFired EXCEPT ![a] = TRUE]
            /\ wpc' = [wpc EXCEPT ![a] = "wait"]
            /\ UNCHANGED wobs
    /\ UNCHANGED <<tmpl, ctxDone, nAttempts, ready, setOnce, onceValue, wres,
                   branch, mpc, mret, once, done, ipc, iv, ic, ich, ires,
                   setLog, setEarly, nSets>>
    /\ UNCHANGED errVars

\* extractActualValue returns o: OnceValues caches it, ExtractByKey hands it on
Resolve(a, o, how) ==
    /\ onceValue' = [onceValue EXCEPT ![a] = o]
    /\ wobs' = [wobs EXCEPT ![a] = Append(@, Outcome(o))]
    /\ branch' = [branch EXCEPT ![a] = how]
    /\ wpc' = [wpc EXCEPT ![a] = "run"]

\* case v := <-ready
SelectReady(a) ==
    /\ wpc[a] = "wait"
    /\ ready[a] # <<>>
    /\ Resolve(a, Found(Head(ready[a])), "ready")
    /\ ready' = [ready EXCEPT ![a] = Tail(@)]
    /\ UNCHANGED <<tmpl, ctxDone, nAttempts, blockedFired, setOnce, wres, mpc,
                   mret, once, done, ipc, iv, ic, ich, ires, setLog, setEarly,
                   nSets>>
    /\ UNCHANGED errVars

\* a fault of SelectCtxDone: the case does not wait for the deadline
SelectCtxDone_NoDeadline(a) ==
    /\ wpc[a] = "wait"
    /\ wpc' = [wpc EXCEPT ![a] = "cancelled"]
    /\ UNCHANGED <<tmpl, ctxDone, nAttempts, ready, blockedFired, setOnce,
                   onceValue, wobs, wres, branch, mpc, mret, once, done, ipc,
                   iv, ic, ich, ires, setLog, setEarly, nSets>>
    /\ UNCHANGED errVars

\* case <-ctx.Done()
SelectCtxDone(a) ==
    /\ wpc[a] = "wait"
    /\ ctxDone
    /\ wpc' = [wpc EXCEPT ![a] = "cancelled"]
    /\ UNCHANGED <<tmpl, ctxDone, nAttempts, ready, blockedFired, setOnce,
                   onceValue, wobs, wres, branch, mpc, mret, once, done, ipc,
                   iv, ic, ich, ires, setLog, setEarly, nSets>>
    /\ UNCHANGED errVars

\* a fault of AlreadySet: the inner select is missing
AlreadySet_Never(a) == FALSE

\* the inner select's `case v := <-ready` can proceed
AlreadySet(a) == ready[a] # <<>>

\* the inner select: the value if it is already set, else (nil, false)
InnerSelect(a) ==
    /\ wpc[a] = "cancelled"
    /\ IF AlreadySet(a)
       THEN /\ Resolve(a, Found(Head(ready[a])), "late")
            /\ ready' = [ready EXCEPT ![a] = Tail(@)]
       ELSE /\ Resolve(a, NotFound, "deadline")
            /\ UNCHANGED ready
    /\ UNCHANGED <<tmpl, ctxDone, nAttempts, blockedFired, setOnce, wres, mpc,
                   mret, once, done, ipc, iv, ic, ich, ires, setLog, setEarly,
                   nSets>>
    /\ UNCHANGED errVars

\* t.execute returned: the worker blocks in `done <- templateResult{...}`
WorkerFinish(a) ==
    /\ wpc[a] = "run"
    /\ Len(wobs[a]) = Len(tmpl)
    /\ wres' = [wres EXCEPT ![a] = TemplateResult(wobs[a])]
    /\ wpc' = [wpc EXCEPT ![a] = "send"]
    /\ UNCHANGED <<tmpl, ctxDone, nAttempts, ready, blockedFired, setOnce,
                   onceValue, wobs, branch, mpc, mret, once, done, ipc, iv, ic,
                   ich, ires, setLog, setEarly, nSets>>
    /\ UNCHANGED errVars

----------------------------------------------------------------------------
(* waitContext.set *)

\* a fault of SetFirst: the guard is the empty slot, not setOnce
SetFirst_EmptySlot(a) == ready[a] = <<>>

\* setOnce.Do runs its function on the first call only
SetFirst(a) == ~setOnce[a]

\* c.set(v) on the waitContext of attempt a; `c.ready <- v` needs room
set(a, v) ==
    IF SetFirst(a)
    THEN /\ Len(ready[a]) < 1
         /\ ready' = [ready EXCEPT ![a] = Append(@, v)]
         /\ setOnce' = [setOnce EXCEPT ![a] = TRUE]
         /\ setLog' = [setLog EXCEPT ![a] = Append(@, [v |-> v, err |-> NoErr])]
         /\ setEarly' = [setEarly EXCEPT ![a] = ~ctxDone]
    ELSE /\ setLog' = [setLog EXCEPT ![a] = Append(@, [v |-> v, err |-> ErrTwice])]
         /\ UNCHANGED <<ready, setOnce, setEarly>>

----------------------------------------------------------------------------
(* executeLazyTemplate *)

\* wc, done := t.executeTemplate(ctx, data)
ExecuteLazyTemplate ==
    /\ mpc = "init"
    /\ StartAttempt(1)
    /\ mpc' = "select"
    /\ UNCHANGED <<tmpl, ctxDone, wres, branch, mret, once, done, ipc, iv, ic,
                   ich, ires, setLog, setEarly, nSets>>
    /\ UNCHANGED errVars

\* case result := <-done: return result.v, result.err
SelectDone ==
    /\ mpc = "select"
    /\ wpc[1] = "send"
    /\ mret' = wres[1]
    /\ mpc' = "resolved"
    /\ wpc' = [wpc EXCEPT ![1] = "exit"]
    /\ UNCHANGED <<tmpl, ctxDone, nAttempts, ready, blockedFired, setOnce,
                   onceValue, wobs, wres, branch, once, done, ipc, iv, ic, ich,
                   ires, setLog, setEarly, nSets>>
    /\ UNCHANGED errVars

\* a fault of SelectBlocked: the Lazy is returned without the blocked signal
SelectBlocked_NoWait ==
    /\ mpc = "select"
    /\ mpc' = "lazy"
    /\ UNCHANGED <<tmpl, ctxDone, nAttempts, ready, blockedFired, setOnce,
                   onceValue, wpc, wobs, wres, branch, mret, once, done, ipc,
                   iv, ic, ich, ires, setLog, setEarly, nSets>>
    /\ UNCHANGED errVars

\* case <-wc.blocked(): return Lazy(...), nil
SelectBlocked ==
    /\ mpc = "select"
    /\ blockedFired[1]
    /\ mpc' = "lazy"
    /\ UNCHANGED <<tmpl, ctxDone, nAttempts, ready, blockedFired, setOnce,
                   onceValue, wpc, wobs, wres, branch, mret, once, done, ipc,
                   iv, ic, ich, ires, setLog, setEarly, nSets>>
    /\ UNCHANGED errVars

----------------------------------------------------------------------------
(* the Lazy closure *)

\* the caller invokes the Lazy with v; invocations follow one another
Invoke(c, v) ==
    /\ mpc = "lazy"
    /\ ipc[c] = "idle"
    /\ \A d \in Calls : d < c => ipc[d] = "ret"
    /\ iv' = [iv EXCEPT ![c] = v]
    /\ ipc' = [ipc EXCEPT ![c] = "once"]
    /\ UNCHANGED <<tmpl, ctxDone, nAttempts, ready, blockedFired, setOnce,
                   onceValue, wpc, wobs, wres, branch, mpc, mret, once, done,
                   ic, ich, ires, setLog, setEarly, nSets>>
    /\ UNCHANGED errVars

\* the caller invokes the Lazy with v while earlier invocations may still be
\* under way (from other goroutines); c numbers the invocations as they start
InvokeConcurrently(c, v) ==
    /\ mpc = "lazy"
    /\ ipc[c] = "idle"
    /\ \A d \in Calls : d < c => ipc[d] # "idle"
    /\ iv' = [iv EXCEPT ![c] = v]
    /\ ipc' = [ipc EXCEPT ![c] = "once"]
    /\ UNCHANGED <<tmpl, ctxDone, nAttempts, ready, blockedFired, setOnce,
                   onceValue, wpc, wobs, wres, branch, mpc, mret, once, done,
                   ic, ich, ires, setLog, setEarly, nSets>>
    /\ UNCHANGED errVars

\* a fault of OnceDo: c stays nil, also on the first invocation
OnceDo_AlwaysNil(c) ==
    /\ ipc[c] = "once"
    /\ ic' = [ic EXCEPT ![c] = 0]
    /\ ipc' = [ipc EXCEPT ![c] = "exec"]
    /\ UNCHANGED <<tmpl, ctxDone, nAttempts, ready, blockedFired, setOnce,
                   onceValue, wpc, wobs, wres, branch, mpc, mret, once, done, iv,
                   ich, ires, setLog, setEarly, nSets>>
    /\ UNCHANGED errVars

\* a fault of OnceDo: `c = wc` without the sync.Once, on every invocation
OnceDo_AlwaysFirst(c) ==
    /\ ipc[c] = "once"
    /\ once' = TRUE
    /\ ic' = [ic EXCEPT ![c] = 1]
    /\ ipc' = [ipc EXCEPT ![c] = "set"]
    /\ UNCHANGED <<tmpl, ctxDone, nAttempts, ready, blockedFired, setOnce,
                   onceValue, wpc, wobs, wres, branch, mpc, mret, done, iv,
                   ich, ires, setLog, setEarly, nSets>>
    /\ UNCHANGED errVars

\* var c *waitContext; once.Do(func() { c = wc })
OnceDo(c) ==
    /\ ipc[c] = "once"
    /\ IF ~once
       THEN /\ once' = TRUE
            /\ ic' = [ic EXCEPT ![c] = 1]
            /\ ipc' = [ipc EXCEPT ![c] = "set"]
       ELSE /\ ic' = [ic EXCEPT ![c] = 0]
            /\ ipc' = [ipc EXCEPT ![c] = "exec"]
            /\ UNCHANGED once
    /\ UNCHANGED <<tmpl, ctxDone, nAttempts, ready, blockedFired, setOnce,
                   onceValue, wpc, wobs, wres, branch, mpc, mret, done, iv,
                   ich, ires, setLog, setEarly, nSets>>
    /\ UNCHANGED errVars

\* a fault of ExecuteAgain: `c, _ = t.executeTemplate(ctx, data)` leaves the
\* captured done at the first attempt's channel
ExecuteAgain_KeepDone(c) ==
    /\ ipc[c] = "exec"
    /\ nAttempts < MaxAttempts
    /\ StartAttempt(nAttempts + 1)
    /\ ic' = [ic EXCEPT ![c] = nAttempts + 1]
    /\ ipc' = [ipc EXCEPT ![c] = "set"]
    /\ UNCHANGED <<tmpl, ctxDone, wres, branch, mpc, mret, once, done, iv, ich,
                   ires, setLog, setEarly, nSets>>
    /\ UNCHANGED errVars

\* if c == nil { c, done = t.executeTemplate(ctx, data) }
ExecuteAgain(c) ==
    /\ ipc[c] = "exec"
    /\ nAttempts < MaxAttempts
    /\ StartAttempt(nAttempts + 1)
    /\ ic' = [ic EXCEPT ![c] = nAttempts + 1]
    /\ done' = nAttempts + 1
    /\ ipc' = [ipc EXCEPT ![c] = "set"]
    /\ UNCHANGED <<tmpl, ctxDone, wres, branch, mpc, mret, once, iv, ich, ires,
                   setLog, setEarly, nSets>>
    /\ UNCHANGED errVars

\* if err := c.set(v); err != nil { return nil, err }
CallSet(c) ==
    /\ ipc[c] = "set"
    /\ set(ic[c], iv[c])
    /\ IF SetFirst(ic[c])
       THEN /\ ipc' = [ipc EXCEPT ![c] = "recv"]
            /\ UNCHANGED ires
       ELSE /\ ipc' = [ipc EXCEPT ![c] = "ret"]
            /\ ires' = [ires EXCEPT ![c] = [v |-> <<>>, err |-> ErrTwice]]
    /\ UNCHANGED <<tmpl, ctxDone, nAttempts, blockedFired, onceValue, wpc,
                   wobs, wres, branch, mpc, mret, once, done, iv, ic, ich,
                   nSets>>
    /\ UNCHANGED errVars

\* `<-done`: the channel expression is evaluated, then the receive waits
RecvEval(c) ==
    /\ ipc[c] = "recv"
    /\ ich' = [ich EXCEPT ![c] = done]
    /\ ipc' = [ipc EXCEPT ![c] = "recvwait"]
    /\ UNCHANGED <<tmpl, ctxDone, nAttempts, ready, blockedFired, setOnce,
                   onceValue, wpc, wobs, wres, branch, mpc, mret, once, done,
                   iv, ic, ires, setLog, setEarly, nSets>>
    /\ UNCHANGED errVars

\* result := <-done; return result.v, result.err
Recv(c) ==
    /\ ipc[c] = "recvwait"
    /\ wpc[ich[c]] = "send"
    /\ ires' = [ires EXCEPT ![c] = wres[ich[c]]]
    /\ wpc' = [wpc EXCEPT ![ich[c]] = "exit"]
    /\ ipc' = [ipc EXCEPT ![c] = "ret"]
    /\ UNCHANGED <<tmpl, ctxDone, nAttempts, ready, blockedFired, setOnce,
                   onceValue, wobs, wres, branch, mpc, mret, once, done, iv,
                   ic, ich, setLog, setEarly, nSets>>
    /\ UNCHANGED errVars

----------------------------------------------------------------------------
(* the environment *)

\* the deadline of ctx elapses: ctx.Done() is closed
CtxDone ==
    /\ ~ctxDone
    /\ ctxDone' = TRUE
    /\ UNCHANGED <<tmpl, nAttempts, ready, blockedFired, setOnce, onceValue,
                   wpc, wobs, wres, branch, mpc, mret, once, done, ipc, iv, ic,
                   ich, ires, setLog, setEarly, nSets>>
    /\ UNCHANGED errVars

\* a caller inside the package calls set on the waitContext directly
DirectSet(v) ==
    /\ nAttempts >= 1
    /\ nSets < MaxSets
    /\ set(1, v)
    /\ nSets' = nSets + 1
    /\ UNCHANGED <<tmpl, ctxDone, nAttempts, blockedFired, onceValue, wpc,
                   wobs, wres, branch, mpc, mret, once, done, ipc, iv, ic, ich,
                   ires>>
    /\ UNCHANGED errVars

----------------------------------------------------------------------------
(* errors/error.go: the error objects *)

\* strings are sequences of tokens; "." is the path separator
LeafMsgs == {<<"a">>}
NewMsgs == {<<"b">>}
WrapMsgs == {<<"m">>}
\* a message that holds a formatting verb
FmtMsgs == {<<"got ", "%v">>}
Segments == {<<"foo">>, <<"bar">>}
Queries == {<<".", "q", "[0]">>}
NoNode == 0
Nodes == {1}
\* the paths that locate a node of the source document
DocPaths == {<<>>, <<".", "foo">>}

Blank == [kind |-> "plain", msg |-> <<>>, Path |-> <<>>, Node |-> NoNode,
          EnabledColor |-> FALSE, Err |-> 0, Errs |-> <<>>]
\* errors.New(message)
PlainObj(m) == [Blank EXCEPT !.msg = m]
\* an error with an Unwrap method: pkgerrors.Wrap(err, message) and
\* fmt.Errorf("message: %w", err)
WrapObj(m, err) == [Blank EXCEPT !.kind = "wrap", !.msg = m, !.Err = err]
\* &PathError{Path: path, Err: err}
PathErrorObj(path, err) == [Blank EXCEPT !.kind = "path", !.Path = path, !.Err = err]
\* &MultiPathError{Errs: errs}
MultiPathErrorObj(errs) == [Blank EXCEPT !.kind = "multi", !.Errs = errs]

\* fmt.Sprintf(".%s", path)
DotPath(path) == <<".">> \o path

\* fmt.Sprintf(format) without arguments: a verb of the format has no operand
Sprintf(format) ==
    [i \in DOMAIN format |->
        IF format[i] = "%v" THEN "%!v(MISSING)" ELSE format[i]]

\* the result of a call: the heap after it, the error returned, whether it panicked
Ret(h, id) == [h |-> h, ret |-> id, panic |-> FALSE]
Panic(h) == [h |-> h, ret |-> 0, panic |-> TRUE]
\* a freshly allocated object
Alloc(h, obj) == Ret(Append(h, obj), Len(h) + 1)

\* errors.As(err, &e) for `var e Error`: the first error of err's Unwrap chain
\* that implements Error (0: none). PathError and MultiPathError do not unwrap.
RECURSIVE As(_, _)
As(h, err) ==
    IF err = 0 THEN 0
    ELSE IF h[err].kind \in {"path", "multi"} THEN err
    ELSE IF h[err].kind = "wrap" THEN As(h, h[err].Err)
    ELSE 0

\* errors.As(err, &e) for the receiver `e *MultiPathError`: the first
\* *MultiPathError of err's Unwrap chain (0: none)
RECURSIVE AsMulti(_, _)
AsMulti(h, err) ==
    IF err = 0 THEN 0
    ELSE IF h[err].kind = "multi" THEN err
    ELSE IF h[err].kind = "wrap" THEN AsMulti(h, h[err].Err)
    ELSE 0

----------------------------------------------------------------------------
(* errors/error.go: the methods of PathError and MultiPathError *)

RECURSIVE appendPath(_, _, _)
RECURSIVE RangeAppendPath(_, _, _, _)
RECURSIVE setNodeAndColored(_, _, _, _)
RECURSIVE RangeSetNodeAndColored(_, _, _, _, _)
RECURSIVE wrapf(_, _, _)
RECURSIVE RangeWrapf(_, _, _, _)
RECURSIVE Wrapf(_, _, _)

\* a fault of PathError.appendPath: `e.Path = e.Path + path`
PathError_appendPath_Suffix(h, e, path) == [h EXCEPT ![e].Path = @ \o path]

\* func (e *PathError) appendPath(path string)
PathError_appendPath(h, e, path) == [h EXCEPT ![e].Path = path \o @]

\* func (e *PathError) wrapf(message string, args ...interface{})
PathError_wrapf(h, e, m) ==
    LET r == Wrapf(h, h[e].Err, m)
    IN  IF r.panic THEN r ELSE Ret([r.h EXCEPT ![e].Err = r.ret], e)

\* func (e *PathError) setNodeAndColored(node ast.Node, colored bool)
PathError_setNodeAndColored(h, e, node, colored) ==
    [h EXCEPT ![e].Node = node, ![e].EnabledColor = colored]

\* the body of `for _, err := range e.Errs` in MultiPathError.appendPath
AppendPathChild(h, err, path) ==
    LET c == As(h, err)
    IN  IF c = 0 THEN h ELSE appendPath(h, c, path)

\* a fault of MultiPathError.appendPath: a child that is no Error is replaced
\* by a PathError, as wrapf does: `e.Errs[idx] = &PathError{Err: err, Path: path}`
RangeAppendPath_Replace(h, e, i, path) ==
    IF i > Len(h[e].Errs) THEN h
    ELSE LET err == h[e].Errs[i]
             r == Alloc(h, PathErrorObj(path, err))
         IN  IF As(h, err) # 0
             THEN RangeAppendPath(appendPath(h, As(h, err), path), e, i + 1, path)
             ELSE RangeAppendPath([r.h EXCEPT ![e].Errs[i] = r.ret], e, i + 1, path)

RangeAppendPath(h, e, i, path) ==
    IF i > Len(h[e].Errs) THEN h
    ELSE RangeAppendPath(AppendPathChild(h, h[e].Errs[i], path), e, i + 1, path)

\* func (e *MultiPathError) appendPath(path string)
MultiPathError_appendPath(h, e, path) == RangeAppendPath(h, e, 1, path)

\* the body of `for idx, err := range e.Errs` in MultiPathError.wrapf:
\* errors.As(err, &e) has the receiver as its target, so it matches a
\* *MultiPathError only, and then pathErr is still the nil interface
RangeWrapf(h, e, idx, m) ==
    IF idx > Len(h[e].Errs) THEN Ret(h, e)
    ELSE LET err == h[e].Errs[idx]
         IN  IF AsMulti(h, err) # 0
             THEN Panic(h)
             ELSE LET r == Wrapf(h, err, m)
                  IN  IF r.panic THEN r
                      ELSE RangeWrapf([r.h EXCEPT ![e].Errs[idx] = r.ret],
                                      e, idx + 1, m)

\* func (e *MultiPathError) wrapf(message string, args ...interface{})
MultiPathError_wrapf(h, e, m) == RangeWrapf(h, e, 1, m)

\* the body of `for _, err := range e.Errs` in MultiPathError.setNodeAndColored
SetNodeAndColoredChild(h, err, node, colored) ==
    LET c == As(h, err)
    IN  IF c = 0 THEN h ELSE setNodeAndColored(h, c, node, colored)

RangeSetNodeAndColored(h, e, i, node, colored) ==
    IF i > Len(h[e].Errs) THEN h
    ELSE RangeSetNodeAndColored(
             SetNodeAndColoredChild(h, h[e].Errs[i], node, colored),
             e, i + 1, node, colored)

\* func (e *MultiPathError) setNodeAndColored(node ast.Node, colored bool)
MultiPathError_setNodeAndColored(h, e, node, colored) ==
    RangeSetNodeAndColored(h, e, 1, node, colored)

\* a method call on a value of the interface Error
appendPath(h, e, path) ==
    IF h[e].kind = "path" THEN PathError_appendPath(h, e, path)
    ELSE MultiPathError_appendPath(h, e, path)

wrapf(h, e, m) ==
    IF h[e].kind = "path" THEN PathError_wrapf(h, e, m)
    ELSE MultiPathError_wrapf(h, e, m)

setNodeAndColored(h, e, node, colored) ==
    IF h[e].kind = "path" THEN PathError_setNodeAndColored(h, e, node, colored)
    ELSE MultiPathError_setNodeAndColored(h, e, node, colored)

----------------------------------------------------------------------------
(* errors/error.go: the package's functions *)

\* func New(message string) error
New(h, m) == Alloc(h, PlainObj(m))

\* func Errorf(format string, args ...interface{}) error, with a %w argument
Errorf(h, m, err) == Alloc(h, WrapObj(m, err))

\* func ErrorPath(path, message string) error
ErrorPath(h, path, m) ==
    LET c == New(h, m) IN Alloc(c.h, PathErrorObj(DotPath(path), c.ret))

\* a fault of Errors: no `if len(errs) == 0 { return nil }`
Errors_NeverNil(h, errs) == Alloc(h, MultiPathErrorObj(errs))

\* a fault of Errors: `&MultiPathError{Errs: errs[1:]}`
Errors_Tail(h, errs) ==
    IF Len(errs) = 0 THEN Ret(h, 0) ELSE Alloc(h, MultiPathErrorObj(Tail(errs)))

\* sort.Slice(errs, ...): the errors by age, each once
RECURSIVE Sorted(_)
Sorted(ids) ==
    IF ids = {} THEN <<>>
    ELSE LET x == CHOOSE y \in ids : \A z \in ids : y <= z
         IN  <<x>> \o Sorted(ids \ {x})

\* a fault of Errors: the errors are sorted and deduplicated before they
\* become the children
Errors_Sorted(h, errs) ==
    IF Len(errs) = 0 THEN Ret(h, 0)
    ELSE Alloc(h, MultiPathErrorObj(Sorted({errs[i] : i \in DOMAIN errs})))

\* func Errors(errs ...error) error
Errors(h, errs) ==
    IF Len(errs) = 0 THEN Ret(h, 0) ELSE Alloc(h, MultiPathErrorObj(errs))

\* &PathError{Err: pkgerrors.Wrap(err, message)}
FreshWrap(h, err, m) ==
    LET w == Alloc(h, WrapObj(m, err)) IN Alloc(w.h, PathErrorObj(<<>>, w.ret))

\* func Wrap(err error, message string) error
Wrap(h, err, m) ==
    LET e == As(h, err)
    IN  IF e # 0
        THEN LET r == wrapf(h, e, m) IN IF r.panic THEN r ELSE Ret(r.h, e)
        ELSE FreshWrap(h, err, m)

\* func Wrapf(err error, format string, args ...interface{}) error, without
\* args: pkgerrors.Wrapf formats the message with fmt.Sprintf(format)
Wrapf(h, err, m) ==
    LET e == As(h, err)
    IN  IF e # 0
        THEN LET r == wrapf(h, e, m) IN IF r.panic THEN r ELSE Ret(r.h, e)
        ELSE FreshWrap(h, err, Sprintf(m))

\* a fault of WrapPath: an error that holds no Error gets the path without
\* the message, `&PathError{Err: err, Path: ...}`
WrapPath_NoMessage(h, err, path, m) ==
    LET e == As(h, err)
    IN  IF e # 0
        THEN LET r == wrapf(h, e, m)
             IN  IF r.panic THEN r
                 ELSE Ret(appendPath(r.h, e, DotPath(path)), e)
        ELSE Alloc(h, PathErrorObj(DotPath(path), err))

\* func WrapPath(err error, path, message string) error
WrapPath(h, err, path, m) ==
    LET e == As(h, err)
    IN  IF e # 0
        THEN LET r == wrapf(h, e, m)
             IN  IF r.panic THEN r
                 ELSE Ret(appendPath(r.h, e, DotPath(path)), e)
        ELSE LET w == Wrap(h, err, m)
             IN  Alloc(w.h, PathErrorObj(DotPath(path), w.ret))

\* func WrapPathf(err error, path, message string, args ...interface{}) error
WrapPathf(h, err, path, m) ==
    LET e == As(h, err)
    IN  IF e # 0
        THEN LET r == wrapf(h, e, m)
             IN  IF r.panic THEN r
                 ELSE Ret(appendPath(r.h, e, DotPath(path)), e)
        ELSE LET w == Wrapf(h, err, m)
             IN  Alloc(w.h, PathErrorObj(DotPath(path), w.ret))

\* func WithPath(err error, path string) error
WithPath(h, err, path) ==
    LET e == As(h, err)
    IN  IF e # 0 THEN Ret(appendPath(h, e, DotPath(path)), e)
        ELSE Alloc(h, PathErrorObj(DotPath(path), err))

\* func WithQuery(err error, q *query.Query) error
WithQuery(h, err, q) ==
    LET e == As(h, err)
    IN  IF e # 0 THEN Ret(appendPath(h, e, q), e)
        ELSE Alloc(h, PathErrorObj(q, err))

\* a fault of WithNodeAndColored: an error that holds no Error is put into
\* a PathError, as WithPath does: `return &PathError{Err: err, Node: node}`
WithNodeAndColored_Fresh(h, err, node, colored) ==
    LET e == As(h, err)
    IN  IF e # 0 THEN Ret(setNodeAndColored(h, e, node, colored), e)
        ELSE Alloc(h, [PathErrorObj(<<>>, err) EXCEPT !.Node = node,
                                                       !.EnabledColor = colored])

\* func WithNodeAndColored(err error, node ast.Node, colored bool) error
WithNodeAndColored(h, err, node, colored) ==
    LET e == As(h, err)
    IN  IF e # 0 THEN Ret(setNodeAndColored(h, e, node, colored), e)
        ELSE Ret(h, err)

----------------------------------------------------------------------------
(* errors/error.go: the Error methods *)

RECURSIVE Error(_, _)

\* yaml.PathString: a path is a sequence of ".name" and "[i]" selectors
PathString(path) ==
    \A i \in DOMAIN path :
        path[i] = "." => (i < Len(path) /\ path[i + 1] # ".")

\* printer.PrintErrorToken(node.GetToken(), colored): the excerpt of the
\* document around the node at path
PrintErrorToken(path, colored) ==
    (IF colored THEN <<"color">> ELSE <<>>) \o <<">">> \o path
        \o (IF path = <<>> THEN <<"\n">> ELSE <<>>)

\* func (e *PathError) yml() string
yml(h, e) ==
    IF h[e].Node = NoNode THEN <<>>
    ELSE IF ~PathString(h[e].Path) THEN <<>>
    ELSE IF h[e].Path \notin DocPaths THEN <<>>
    ELSE PrintErrorToken(h[e].Path, h[e].EnabledColor)

\* a fault of PathError.Error: the path is tried before the excerpt
PathError_Error_PathFirst(h, e) ==
    LET y == yml(h, e)
    IN  IF h[e].Path # <<>> THEN h[e].Path \o <<": ">> \o Error(h, h[e].Err)
        ELSE IF y # <<>>
        THEN <<"\n">> \o (IF y[Len(y)] # "\n" THEN Append(y, "\n") ELSE y)
                 \o Error(h, h[e].Err)
        ELSE Error(h, h[e].Err)

\* func (e *PathError) Error() string
PathError_Error(h, e) ==
    LET y == yml(h, e)
    IN  IF y # <<>>
        THEN <<"\n">> \o (IF y[Len(y)] # "\n" THEN Append(y, "\n") ELSE y)
                 \o Error(h, h[e].Err)
        ELSE IF h[e].Path # <<>>
        THEN h[e].Path \o <<": ">> \o Error(h, h[e].Err)
        ELSE Error(h, h[e].Err)

\* strings.TrimLeft(s, "\t")
RECURSIVE TrimLeft(_)
TrimLeft(s) == IF s # <<>> /\ Head(s) = "\t" THEN TrimLeft(Tail(s)) ELSE s

\* strconv.Itoa for the %d of the counted summary
Itoa(n) == <<"0", "1", "2", "3", "4", "5", "6", "7", "8", "9">>[n + 1]

\* strings.Join(points, "\n") for points[i] = TrimLeft(es[i].Error(), "\t")
RECURSIVE Points(_, _, _)
Points(h, es, i) ==
    IF i > Len(es) THEN <<>>
    ELSE TrimLeft(Error(h, es[i]))
             \o (IF i < Len(es) THEN <<"\n">> ELSE <<>>)
             \o Points(h, es, i + 1)

\* a fault of MultiPathError.Error: children that render alike are listed once
RECURSIVE MergedPoints(_, _, _)
MergedPoints(h, es, i) ==
    IF i > Len(es) THEN <<>>
    ELSE (IF \E j \in 1..(i - 1) : Error(h, es[j]) = Error(h, es[i])
          THEN <<>>
          ELSE TrimLeft(Error(h, es[i]))
                   \o (IF i < Len(es) THEN <<"\n">> ELSE <<>>))
             \o MergedPoints(h, es, i + 1)

MultiPathError_Error_Merged(h, e) ==
    LET es == h[e].Errs
    IN  IF Len(es) = 1
        THEN <<"1", " error occurred:">> \o TrimLeft(Error(h, es[1]))
                 \o <<"\n\n">>
        ELSE <<Itoa(Len(es)), " errors occurred:">> \o MergedPoints(h, es, 1)
                 \o <<"\n\n">>

\* func (e *MultiPathError) Error() string: multierror.Append keeps the
\* children as they are and ErrorFormat renders them
MultiPathError_Error(h, e) ==
    LET es == h[e].Errs
    IN  IF Len(es) = 1
        THEN <<"1", " error occurred:">> \o TrimLeft(Error(h, es[1]))
                 \o <<"\n\n">>
        ELSE <<Itoa(Len(es)), " errors occurred:">> \o Points(h, es, 1)
                 \o <<"\n\n">>

\* err.Error(): errors.New renders its message, pkgerrors.Wrap and
\* fmt.Errorf("message: %w") render "message: cause"
Error(h, e) ==
    IF h[e].kind = "plain" THEN h[e].msg
    ELSE IF h[e].kind = "wrap" THEN h[e].msg \o <<": ">> \o Error(h, h[e].Err)
    ELSE IF h[e].kind = "path" THEN PathError_Error(h, e)
    ELSE MultiPathError_Error(h, e)

----------------------------------------------------------------------------
(* a program calling the package's functions on the errors it holds *)

NoHist == [segs |-> <<>>, base |-> <<>>]

\* history of the WithPath calls that returned PathError x: the segments
\* given since its path was last set by anything else, and the path it had then
HistAfter(op, str, r, x) ==
    IF r.h[x].kind # "path" THEN NoHist
    ELSE IF op = "WithPath" /\ ~r.panic /\ r.ret = x
    THEN IF x > Len(heap) THEN [segs |-> <<str>>, base |-> <<>>]
         ELSE [hist[x] EXCEPT !.segs = Append(@, str)]
    ELSE IF x > Len(heap) \/ r.h[x].Path # heap[x].Path
    THEN [segs |-> <<>>, base |-> r.h[x].Path]
    ELSE hist[x]

\* the call op(arg, ...) returned r
Apply(op, arg, str, m, r) ==
    /\ ~panicked
    /\ nOps < MaxOps
    /\ heap' = r.h
    /\ held' = IF r.panic \/ r.ret = 0 THEN held ELSE held \cup {r.ret}
    /\ panicked' = r.panic
    /\ nOps' = nOps + 1
    /\ last' = [op |-> op, arg |-> arg, str |-> str, msg |-> m, ret |-> r.ret,
                seen |-> 0]
    /\ hist' = [x \in 1..Len(r.h) |-> HistAfter(op, str, r, x)]
    /\ UNCHANGED lazyVars

Held == held

CallNew(m) == Apply("New", 0, <<>>, m, New(heap, m))

CallErrorf(m, err) == Apply("Errorf", err, <<>>, m, Errorf(heap, m, err))

CallErrorPath(path, m) == Apply("ErrorPath", 0, path, m, ErrorPath(heap, path, m))

\* the history keeps the list given to Errors
CallErrors(errs) == Apply("Errors", 0, errs, <<>>, Errors(heap, errs))

CallWrap(err, m) == Apply("Wrap", err, <<>>, m, Wrap(heap, err, m))

CallWrapf(err, m) == Apply("Wrap", err, <<>>, m, Wrapf(heap, err, m))

CallWrapPath(err, path, m) ==
    Apply("WrapPath", err, path, m, WrapPath(heap, err, path, m))

CallWrapPathf(err, path, m) ==
    Apply("WrapPath", err, path, m, WrapPathf(heap, err, path, m))

CallWithPath(err, path) ==
    Apply("WithPath", err, path, <<>>, WithPath(heap, err, path))

CallWithQuery(err, q) ==
    Apply("WithQuery", err, q, <<>>, WithQuery(heap, err, q))

CallWithNodeAndColored(err, node, colored) ==
    Apply("WithNodeAndColored", err, <<>>, <<>>,
          WithNodeAndColored(heap, err, node, colored))

----------------------------------------------------------------------------
(* the assertions And and Or, which aggregate with Errors *)

\* what the children of an assertion do with the actual value
OutcomeLists == UNION {[1..n -> {"pass", "fail"}] : n \in 0..MaxChildren}

\* child i fails: its error carries the path of the child
ChildError(h, i) == ErrorPath(h, <<Itoa(i - 1)>>, <<"a">>)

\* Assert of the children from i on, one after the other: the heap, the
\* errors of the failing ones, the number of children evaluated
RECURSIVE AssertEach(_, _, _, _)
AssertEach(h, outcomes, i, errs) ==
    IF i > Len(outcomes) THEN [h |-> h, errs |-> errs, seen |-> i - 1]
    ELSE IF outcomes[i] = "pass" THEN AssertEach(h, outcomes, i + 1, errs)
    ELSE LET c == ChildError(h, i)
         IN  AssertEach(c.h, outcomes, i + 1, Append(errs, c.ret))

\* And(children).Assert(actual): every child is evaluated, the failures are
\* collected into Errors
And(h, outcomes) ==
    LET r == AssertEach(h, outcomes, 1, <<>>)
    IN  Errors(r.h, r.errs) @@ [seen |-> r.seen]

\* Or(children).Assert(actual): nil if a child passes, else the failures are
\* collected into Errors
Or(h, outcomes) ==
    LET r == AssertEach(h, outcomes, 1, <<>>)
    IN  IF \E i \in DOMAIN outcomes : outcomes[i] = "pass"
        THEN Ret(r.h, 0) @@ [seen |-> r.seen]
        ELSE Errors(r.h, r.errs) @@ [seen |-> r.seen]

\* the call op(children).Assert(actual) returned r
ApplyAssert(op, outcomes, r) ==
    /\ ~panicked
    /\ nOps < MaxOps
    /\ heap' = r.h
    /\ held' = IF r.ret = 0 THEN held ELSE held \cup {r.ret}
    /\ panicked' = r.panic
    /\ nOps' = nOps + 1
    /\ last' = [op |-> op, arg |-> 0, str |-> outcomes, msg |-> <<>>,
                ret |-> r.ret, seen |-> r.seen]
    /\ hist' = [x \in 1..Len(r.h) |-> HistAfter(op, <<>>, r, x)]
    /\ UNCHANGED lazyVars

CallAnd(outcomes) == ApplyAssert("And", outcomes, And(heap, outcomes))

CallOr(outcomes) == ApplyAssert("Or", outcomes, Or(heap, outcomes))

----------------------------------------------------------------------------
(* the specifications *)

vars == <<lazyVars, errVars>>

InitLazy ==
    /\ ctxDone = FALSE
    /\ nAttempts = 0
    /\ ready = [a \in Attempts |-> <<>>]
    /\ blockedFired = [a \in Attempts |-> FALSE]
    /\ setOnce = [a \in Attempts |-> FALSE]
    /\ onceValue = [a \in Attempts |-> NotCalled]
    /\ wpc = [a \in Attempts |-> "none"]
    /\ wobs = [a \in Attempts |-> <<>>]
    /\ wres = [a \in Attempts |-> NoResult]
    /\ branch = [a \in Attempts |-> "none"]
    /\ mpc = "init"
    /\ mret = NoResult
    /\ once = FALSE
    /\ done = 1
    /\ ipc = [c \in Calls |-> "idle"]
    /\ iv = [c \in Calls |-> Nil]
    /\ ic = [c \in Calls |-> 0]
    /\ ich = [c \in Calls |-> 0]
    /\ ires = [c \in Calls |-> NoResult]
    /\ setLog = [a \in Attempts |-> <<>>]
    /\ setEarly = [a \in Attempts |-> FALSE]
    /\ nSets = 0

\* the program holds one error that is not of this package
InitErr ==
    /\ heap \in {<<PlainObj(m)>> : m \in LeafMsgs}
    /\ held = {1}
    /\ panicked = FALSE
    /\ nOps = 0
    /\ last = [op |-> "none", arg |-> 0, str |-> <<>>, msg |-> <<>>, ret |-> 0,
               seen |-> 0]
    /\ hist = <<NoHist>>

Init == tmpl \in Templates /\ InitLazy /\ InitErr

Worker(a) ==
    \/ WorkerLookup(a)
    \/ WorkerDeref(a)
    \/ SelectReady(a)
    \/ SelectCtxDone(a)
    \/ InnerSelect(a)
    \/ WorkerFinish(a)

\* executeLazyTemplate, then the returned Lazy invoked again and again
Next ==
    \/ ExecuteLazyTemplate
    \/ SelectDone
    \/ SelectBlocked
    \/ CtxDone
    \/ \E a \in Attempts : Worker(a)
    \/ \E c \in Calls, v \in Vals : Invoke(c, v)
    \/ \E c \in Calls : OnceDo(c) \/ ExecuteAgain(c) \/ CallSet(c)
                           \/ RecvEval(c) \/ Recv(c)

Spec == Init /\ [][Next]_vars

\* the invocations supply different values
CallVal(c) == ((c - 1) % NumVals) + 1

\* executeLazyTemplate, then the returned Lazy invoked from several goroutines
NextConc ==
    \/ ExecuteLazyTemplate
    \/ SelectDone
    \/ SelectBlocked
    \/ CtxDone
    \/ \E a \in Attempts : Worker(a)
    \/ \E c \in Calls : InvokeConcurrently(c, CallVal(c))
    \/ \E c \in Calls : OnceDo(c) \/ ExecuteAgain(c) \/ CallSet(c)
                           \/ RecvEval(c) \/ Recv(c)

\* templates that dereference the marker: only these yield a Lazy
ConcTemplates == {<<"$">>, <<"a", "$">>}

InitConc == tmpl \in ConcTemplates /\ InitLazy /\ InitErr

SpecConc == InitConc /\ [][NextConc]_vars

\* the scheduler is fair to every goroutine: to executeLazyTemplate, to each
\* worker and to each invocation under way; neither the caller (who may never
\* invoke the Lazy) nor the deadline (ctx may have none) is obliged to act
Fairness ==
    /\ WF_vars(ExecuteLazyTemplate \/ SelectDone \/ SelectBlocked)
    /\ \A a \in Attempts : WF_vars(Worker(a))
    /\ \A c \in Calls :
          WF_vars(OnceDo(c) \/ ExecuteAgain(c) \/ CallSet(c)
                     \/ RecvEval(c) \/ Recv(c))

SpecFair == InitConc /\ [][NextConc]_vars /\ Fairness

\* one waitContext, its evaluation, and direct calls of set
NextWC ==
    \/ ExecuteLazyTemplate
    \/ SelectDone
    \/ SelectBlocked
    \/ CtxDone
    \/ Worker(1)
    \/ \E v \in Vals : DirectSet(v)

SpecWC == Init /\ [][NextWC]_vars

InitErrors == tmpl = <<>> /\ InitLazy /\ InitErr

\* the lists handed to Errors: errors held, oldest first
ChildLists ==
    {errs \in UNION {[1..n -> Held] : n \in 1..MaxChildren} :
        \A i, j \in DOMAIN errs : i < j => errs[i] < errs[j]}

NextErr ==
    \/ \E m \in NewMsgs : CallNew(m)
    \/ \E m \in WrapMsgs, err \in Held : CallErrorf(m, err)
    \/ \E path \in Segments, m \in LeafMsgs : CallErrorPath(path, m)
    \/ \E errs \in ChildLists : CallErrors(errs)
    \/ \E err \in Held, m \in WrapMsgs : CallWrap(err, m)
    \/ \E err \in Held, m \in WrapMsgs : CallWrapf(err, m)
    \/ \E err \in Held, path \in Segments, m \in WrapMsgs :
          CallWrapPath(err, path, m)
    \/ \E err \in Held, path \in Segments, m \in WrapMsgs :
          CallWrapPathf(err, path, m)
    \/ \E err \in Held, path \in Segments : CallWithPath(err, path)
    \/ \E err \in Held, q \in Queries : CallWithQuery(err, q)
    \/ \E err \in Held, node \in Nodes, colored \in {TRUE} :
          CallWithNodeAndColored(err, node, colored)

SpecErr == InitErrors /\ [][NextErr]_vars

\* the same program, which also wraps with a message that holds a verb
NextFmt ==
    \/ NextErr
    \/ \E err \in Held, m \in FmtMsgs : CallWrap(err, m)

SpecFmt == InitErrors /\ [][NextFmt]_vars

\* assertions applied to actual values
NextAssert ==
    \/ \E outcomes \in OutcomeLists : CallAnd(outcomes)
    \/ \E outcomes \in OutcomeLists : CallOr(outcomes)

SpecAssert == InitErrors /\ [][NextAssert]_vars

\* every list of errors held: empty, in any order, with repetitions
AnyLists == UNION {[1..n -> Held] : n \in 0..MaxChildren}

\* a program that creates errors and aggregates them with Errors
NextAgg ==
    \/ \E m \in NewMsgs : CallNew(m)
    \/ \E path \in Segments, m \in LeafMsgs : CallErrorPath(path, m)
    \/ \E errs \in AnyLists : CallErrors(errs)

SpecAgg == InitErrors /\ [][NextAgg]_vars

----------------------------------------------------------------------------
(* properties of template/lazy.go *)

\* the result of evaluating the template with the marker resolved to (v, ok)
Expected(v, ok) == Eager(tmpl, [v |-> v, ok |-> ok])

\* C1: a template whose evaluation never dereferences "$" never yields a
\* Lazy: executeLazyTemplate returns the pair its worker sent on done, and
\* the blocked signal of no waitContext fires.
C1_NoMarkerNeverLazy ==
    NumDerefs(tmpl) = 0 =>
        /\ mpc # "lazy"
        /\ \A a \in Attempts : ~blockedFired[a]
        /\ mpc = "resolved" => /\ mret = wres[1]
                               /\ mret = Expected(Nil, FALSE)
                               /\ wpc[1] = "exit"

C1_Witness ==
    /\ NumDerefs(tmpl) = 0
    /\ Len(tmpl) >= 1
    /\ mpc = "resolved"
    /\ mret.err = NoErr

\* C2: for a template that dereferences the marker exactly once, while the
\* deadline has not elapsed, an invocation of the Lazy with v returns what the
\* eager evaluation with the marker resolved to v returns.
C2_LazyEqualsEager ==
    \A c \in Calls :
        (NumDerefs(tmpl) = 1 /\ ipc[c] = "ret" /\ ~ctxDone)
            => ires[c] = Expected(iv[c], TRUE)

C2_Witness ==
    /\ NumDerefs(tmpl) = 1
    /\ Len(tmpl) >= 2
    /\ ipc[1] = "ret"
    /\ ~ctxDone
    /\ ires[1].err = NoErr

\* C3: the k-th sequential invocation, k >= 2, runs on a waitContext and a
\* done channel of its own, which only its own value is set into, and its
\* result is a function of its own value alone: the result of the evaluation
\* with the marker resolved to vk (or to not-found, once the deadline elapsed),
\* which is what the first invocation returns for the same value.
C3_FreshIndependent ==
    \A c \in Calls : c >= 2 =>
        /\ ipc[c] \in {"set", "recv", "recvwait", "ret"} =>
              /\ ic[c] # 1
              /\ \A d \in Calls : d < c => ic[d] # ic[c]
              /\ \A i \in 1..Len(setLog[ic[c]]) : setLog[ic[c]][i].v = iv[c]
        /\ ipc[c] \in {"recvwait", "ret"} => ich[c] = ic[c]
        /\ ipc[c] = "ret" =>
              /\ ires[c] \in {Expected(iv[c], TRUE), Expected(Nil, FALSE)}
              /\ ~ctxDone => ires[c] = Expected(iv[c], TRUE)
              /\ (~ctxDone /\ iv[c] = iv[1]) => ires[c] = ires[1]

C3_Witness ==
    /\ NumDerefs(tmpl) >= 1
    /\ ipc[2] = "ret"
    /\ iv[1] # iv[2]
    /\ ires[1] = Expected(iv[1], TRUE)
    /\ ires[2] = Expected(iv[2], TRUE)
    /\ ires[1] # ires[2]

\* C4: on one waitContext the first set(v1) succeeds and puts v1 into the
\* ready slot; every later set(v2) returns "set an actual value twice" and
\* changes neither the slot nor what the evaluator observes: the result is
\* that of v1 (or of not-found), never that of v2.
C4_SetOnce ==
    \A a \in Attempts :
        IF setLog[a] = <<>> THEN ready[a] = <<>> /\ ~onceValue[a].ok
        ELSE LET v1 == setLog[a][1].v
             IN  /\ setLog[a][1].err = "nil"
                 /\ \A i \in 2..Len(setLog[a]) :
                       setLog[a][i].err = "set an actual value twice"
                 /\ ready[a] \in {<<>>, <<v1>>}
                 /\ onceValue[a].ok => onceValue[a].v = v1
                 /\ \A i \in 1..Len(wobs[a]) :
                       (tmpl[i] = "$" /\ wobs[a][i].ok) => wobs[a][i].v = v1
                 /\ wpc[a] \in {"send", "exit"} =>
                       wres[a] \in {Expected(v1, TRUE), Expected(Nil, FALSE)}

C4_Witness ==
    /\ NumDerefs(tmpl) >= 1
    /\ Len(setLog[1]) >= 2
    /\ setLog[1][2].v # setLog[1][1].v
    /\ setLog[1][2].err = ErrTwice
    /\ wpc[1] = "send"
    /\ wres[1] = Expected(setLog[1][1].v, TRUE)

C6_DeliveredValueWins ==
    \A a \in Attempts :
        /\ (setEarly[a] /\ onceValue[a].called) =>
              /\ onceValue[a].ok
              /\ onceValue[a].v = setLog[a][1].v
        /\ (wpc[a] = "cancelled" /\ setEarly[a]) => ready[a] = <<setLog[a][1].v>>

C6_Witness ==
    \E a \in Attempts :
        /\ setEarly[a]
        /\ branch[a] = "late"
        /\ onceValue[a].ok
        /\ onceValue[a].v = setLog[a][1].v

----------------------------------------------------------------------------
(* the protocol of template/lazy.go *)

\* C16: the first invocation of the Lazy starts no evaluation attempt: it
\* takes the waitContext of executeLazyTemplate, sets its own value into it
\* (which succeeds), receives from the channel of that first attempt, and
\* returns the result the first worker sent.
C16_FirstInvocationReuses ==
    /\ ipc[1] \in {"set", "recv", "recvwait", "ret"} => ic[1] = 1
    /\ ipc[1] # "ret" => nAttempts <= 1
    /\ ipc[1] \in {"recv", "recvwait", "ret"} =>
          /\ setLog[1] # <<>>
          /\ setLog[1][1] = [v |-> iv[1], err |-> "nil"]
    /\ ipc[1] \in {"recvwait", "ret"} => ich[1] = 1
    /\ ipc[1] = "ret" =>
          /\ wpc[1] = "exit"
          /\ ires[1] = wres[1]
          /\ ires[1] # [v |-> <<>>, err |-> "none"]

C16_Witness ==
    /\ ipc[1] = "ret"
    /\ nAttempts = 1
    /\ ic[1] = 1
    /\ wpc[1] = "exit"
    /\ branch[1] = "ready"
    /\ ires[1] = wres[1]
    /\ ires[1].err = "nil"

\* C17: when the evaluation has dereferenced the marker and the deadline has
\* not elapsed, executeLazyTemplate has not returned a resolved value or
\* error; as long as no value is supplied and the deadline has not elapsed
\* the worker stays in the wait and sends nothing.
C17_MarkerMeansLazy ==
    /\ (blockedFired[1] /\ ~ctxDone) => mpc \in {"select", "lazy"}
    /\ (blockedFired[1] /\ ~ctxDone /\ setLog[1] = <<>>) =>
          /\ wpc[1] = "wait"
          /\ wres[1] = [v |-> <<>>, err |-> "none"]
    /\ (mpc = "resolved" /\ blockedFired[1]) => branch[1] = "deadline"

C17_Witness ==
    /\ mpc = "lazy"
    /\ blockedFired[1]
    /\ ~ctxDone
    /\ wpc[1] = "wait"
    /\ \A c \in Calls : ipc[c] = "idle"

\* the outcomes the dereferences of the marker returned so far in attempt a
MarkerOutcomes(a) ==
    {wobs[a][i] : i \in {j \in 1..Len(wobs[a]) : tmpl[j] = "$"}}

\* C18: within one waitContext the blocked signal fires once, on the first
\* dereference of the marker and together with the start of the wait, and
\* never resets; the wait is entered once; every dereference of the marker
\* returns the outcome of the first.
C18_BlockedOnceSameOutcome ==
    [][\A a \in Attempts :
          /\ blockedFired[a] => blockedFired'[a]
          /\ (~blockedFired[a] /\ blockedFired'[a]) =>
                /\ MarkerOutcomes(a) = {}
                /\ wpc[a] = "run" /\ wpc'[a] = "wait"
          /\ (wpc[a] # "wait" /\ wpc'[a] = "wait") =>
                (~blockedFired[a] /\ blockedFired'[a])
          /\ Cardinality(MarkerOutcomes(a)') <= 1]_vars

C18_Witness ==
    /\ tmpl = <<"$", "$">>
    /\ blockedFired[1]
    /\ Len(wobs[1]) = 2
    /\ wobs[1][1] = wobs[1][2]
    /\ wobs[1][1].ok
    /\ wpc[1] = "exit"

\* C19: the blocked signal of the first waitContext has fired when the Lazy
\* is returned, hence before any invocation calls set on it; a value the
\* evaluator observes is the value the first set on its waitContext
\* delivered, and was delivered before.
C19_Ordering ==
    /\ mpc = "lazy" => blockedFired[1]
    /\ setLog[1] # <<>> => (blockedFired[1] /\ mpc = "lazy")
    /\ \A a \in Attempts :
          (onceValue[a].called /\ onceValue[a].ok) =>
              /\ setLog[a] # <<>>
              /\ setLog[a][1].err = "nil"
              /\ onceValue[a].v = setLog[a][1].v
              /\ ready[a] = <<>>

C19_Witness ==
    /\ mpc = "lazy"
    /\ onceValue[1].called
    /\ onceValue[1].ok
    /\ onceValue[1].v = iv[1]
    /\ Len(setLog[1]) = 1
    /\ ipc[1] = "recv"

\* the invocations that have returned
Returned == {c \in Calls : ipc[c] = "ret"}

\* C20: an evaluation attempt has one waitContext, one worker and one
\* channel, and its worker hands over one result at most: once it has, it is
\* gone. When n >= 1 sequential invocations of the Lazy have returned and
\* none is under way, n attempts have been started in all, each worker has
\* handed over its one result, and invocation k got the result of attempt k.
C20_OneAttemptPerInvocation ==
    [][/\ \A a \in Attempts : wpc[a] = "exit" => wpc'[a] = "exit"
       /\ \A a \in Attempts :
             (a > nAttempts') <=> (wpc'[a] = "none")
       /\ (mpc' = "lazy" /\ Returned' # {}
              /\ \A c \in Calls : ipc'[c] \in {"idle", "ret"}) =>
             LET n == Cardinality(Returned')
             IN  /\ nAttempts' = n
                 /\ \A k \in 1..n :
                       /\ wpc'[k] = "exit"
                       /\ ipc'[k] = "ret"
                       /\ ires'[k] = wres'[k]]_vars

C20_Witness ==
    /\ mpc = "lazy"
    /\ \A c \in 1..2 : ipc[c] = "ret"
    /\ nAttempts = 2
    /\ wpc[1] = "exit" /\ wpc[2] = "exit"
    /\ ires[2] = wres[2]

----------------------------------------------------------------------------
(* concurrent invocations of the Lazy, and termination *)

\* C21: in every interleaving of invocations, concurrent ones included, set is
\* called on each waitContext at most once; so the ready slot never holds
\* more than one value, the send of set finds room, and no invocation
\* returns the error "set an actual value twice".
C21_SetAtMostOnce ==
    /\ \A a \in Attempts :
          /\ Len(setLog[a]) <= 1
          /\ Len(ready[a]) <= 1
          /\ \A i \in 1..Len(setLog[a]) : setLog[a][i].err = "nil"
    /\ \A c \in Calls :
          /\ ipc[c] = "set" =>
                /\ ic[c] \in 1..nAttempts
                /\ ~setOnce[ic[c]]
                /\ ready[ic[c]] = <<>>
                /\ \A d \in Calls : (d # c /\ ipc[d] # "idle") => ic[d] # ic[c]
          /\ ires[c].err # "set an actual value twice"

\* two invocations under way at once, each having set its value into a
\* waitContext of its own
C21_Witness ==
    /\ ipc[1] = "recv" /\ ipc[2] = "recv"
    /\ ic[1] # ic[2]
    /\ Len(setLog[1]) = 1 /\ Len(setLog[2]) = 1
    /\ setLog[ic[1]][1].v = iv[1]
    /\ setLog[ic[2]][1].v = iv[2]
    /\ iv[1] # iv[2]

\* C22: an invocation receives its result from the channel of the attempt
\* into which it supplied its value, and returns what that attempt's worker
\* computed (from its value, or from the elapsed deadline), never the result
\* computed for the value of another invocation.
C22_OwnResult ==
    \A c \in Calls :
        /\ ipc[c] \in {"recvwait", "ret"} => ich[c] = ic[c]
        /\ ipc[c] = "ret" =>
              /\ ires[c] = wres[ic[c]]
              /\ onceValue[ic[c]].ok => onceValue[ic[c]].v = iv[c]

\* C23: under fair scheduling every invocation of the Lazy that has started
\* eventually returns, in every interleaving.
C23_InvocationReturns ==
    \A c \in Calls : (ipc[c] # "idle") ~> (ipc[c] = "ret")

\* C24: under fair scheduling the worker of every attempt eventually exits
\* once a value has been supplied to its waitContext or the deadline has
\* elapsed, also when the returned Lazy is never invoked.
C24_WorkerTerminates ==
    \A a \in Attempts :
        (wpc[a] # "none" /\ (setLog[a] # <<>> \/ ctxDone)) ~> (wpc[a] = "exit")

\* the step on which ExtractByKey returns to the worker of attempt a
Extracted(a) ==
    /\ wpc[a] # "none"
    /\ nAttempts' = nAttempts
    /\ Len(wobs'[a]) = Len(wobs[a]) + 1

\* C25: ExtractByKey for a key other than "$" does not fire the blocked
\* signal, does not wait (the worker goes on running in the same step) and
\* leaves the waitContext as it was: ready slot, set-once guard and cached
\* actual value; it returns the value the base data holds for the key, or
\* not-found when the data has no such key. The worker starts to wait, and
\* the blocked signal fires, only on the key "$".
C25_PlainKeyOnlyLooksUp ==
    [][\A a \in Attempts :
          /\ (Extracted(a) /\ tmpl[Len(wobs[a]) + 1] # "$") =>
                /\ wpc[a] = "run" /\ wpc'[a] = "run"
                /\ blockedFired'[a] = blockedFired[a]
                /\ ready'[a] = ready[a]
                /\ setOnce'[a] = setOnce[a]
                /\ onceValue'[a] = onceValue[a]
                /\ wobs'[a][Len(wobs'[a])] =
                      IF tmpl[Len(wobs[a]) + 1] = "a"
                      THEN [v |-> NumVals + 1, ok |-> TRUE]
                      ELSE [v |-> 0, ok |-> FALSE]
          /\ (  \/ wpc[a] # "wait" /\ wpc'[a] = "wait"
                \/ ~blockedFired[a] /\ blockedFired'[a])
                => /\ Len(wobs'[a]) < Len(tmpl)
                   /\ tmpl[Len(wobs'[a]) + 1] = "$"]_vars

\* after the actual value was delivered and cached, the lookup of a missing
\* key returned not-found and the evaluation finished with the cache intact
C25_Witness ==
    /\ tmpl = <<"$", "x">>
    /\ wobs[1] = <<[v |-> 1, ok |-> TRUE], [v |-> 0, ok |-> FALSE]>>
    /\ onceValue[1] = [v |-> 1, ok |-> TRUE, called |-> TRUE]
    /\ blockedFired[1] /\ setOnce[1] /\ ready[1] = <<>>
    /\ wpc[1] = "send"

----------------------------------------------------------------------------
(* properties of errors/error.go *)

\* ".pn. ... .p2.p1" for the segments <<p1, p2, ..., pn>>
RECURSIVE PrefixOf(_)
PrefixOf(segs) ==
    IF segs = <<>> THEN <<>>
    ELSE PrefixOf(Tail(segs)) \o <<".">> \o Head(segs)

\* C7: after WithPath(...WithPath(WithPath(e, p1), p2)..., pn) the path of the
\* PathError is ".pn. ... .p2.p1" in front of the path it had before (none for
\* an error that was no PathError): each outer WithPath prepends its segment.
C7_WithPathPrepends ==
    \A x \in 1..Len(heap) :
        heap[x].kind = "path" =>
            heap[x].Path = PrefixOf(hist[x].segs) \o hist[x].base

C7_Witness ==
    \E x \in 1..Len(heap) :
        /\ heap[x].kind = "path"
        /\ hist[x].segs = << <<"bar">>, <<"foo">> >>
        /\ hist[x].base = <<>>
        /\ heap[x].Path = <<".", "foo", ".", "bar">>

\* a step is a call of one of ops
Called(ops) == nOps' = nOps + 1 /\ last'.op \in ops

WrapOps == {"Wrap", "WrapPath"}
PathOps == {"WrapPath", "WithPath", "WithQuery"}
NodeOps == {"WithNodeAndColored"}

\* C8: Wrap, WrapPath, Wrapf, WrapPathf, WithPath and WithQuery, given an error
\* that is a PathError or MultiPathError (as errors.As finds it), mutate it in
\* place and return that very instance; given any other error they return a
\* freshly constructed PathError and leave the input as it was.
C8_SameInstanceOrFresh ==
    [][Called(WrapOps \cup PathOps) =>
          LET err == last'.arg
              e == As(heap, err)
          IN  /\ ~panicked'
              /\ IF e # 0
                 THEN /\ last'.ret = e
                      /\ Len(heap') >= Len(heap)
                      /\ heap'[e].kind = heap[e].kind
                 ELSE /\ last'.ret > Len(heap)
                      /\ heap'[last'.ret].kind = "path"
                      /\ \A x \in 1..Len(heap) : heap'[x] = heap[x]]_vars

\* the number of wrap messages m on the cause chain of x in heap h
RECURSIVE WrapCount(_, _, _)
WrapCount(h, x, m) ==
    IF x = 0 \/ h[x].kind \in {"plain", "multi"} THEN 0
    ELSE IF h[x].kind = "wrap"
    THEN (IF h[x].msg = m THEN 1 ELSE 0) + WrapCount(h, h[x].Err, m)
    ELSE WrapCount(h, h[x].Err, m)

StartsWith(path, pre) ==
    Len(path) >= Len(pre) /\ SubSeq(path, 1, Len(pre)) = pre

\* the prefix a call with path argument str hands to appendPath
PrefixArg(op, str) == IF op = "WithQuery" THEN str ELSE <<".">> \o str

\* the call op(..., str, m) of the step took effect on x: a PathError, or a
\* MultiPathError, and then on each of its children that is one of the two
RECURSIVE Carries(_, _, _, _, _, _)
Carries(h0, h1, x, op, str, m) ==
    IF h0[x].kind = "path"
    THEN /\ op \in WrapOps => WrapCount(h1, x, m) > WrapCount(h0, x, m)
         /\ op \in PathOps =>
               /\ StartsWith(h1[x].Path, PrefixArg(op, str))
               /\ Len(h1[x].Path) > Len(h0[x].Path)
         /\ op \in NodeOps => h1[x].Node # NoNode /\ h1[x].EnabledColor
    ELSE \A i \in 1..Len(h0[x].Errs) :
             h0[h0[x].Errs[i]].kind \in {"path", "multi"} =>
                 Carries(h0, h1, h0[x].Errs[i], op, str, m)

\* the step is a call that reaches the methods of MultiPathError e
OnMulti(e) ==
    /\ Called(WrapOps \cup PathOps \cup NodeOps)
    /\ e = As(heap, last'.arg)
    /\ e # 0
    /\ heap[e].kind = "multi"

\* C9: appendPath, wrapf and setNodeAndColored of a MultiPathError reach every
\* child that is a PathError or a (nested) MultiPathError and complete without
\* crashing; afterwards each such child carries the path prefix, the wrap
\* message, or the node and color flag.
C9_MultiReachesEveryChild ==
    [][\A e \in 1..Len(heap) :
          OnMulti(e) =>
              /\ ~panicked'
              /\ Carries(heap, heap', e, last'.op, last'.str, last'.msg)]_vars

ReplacedBy(s, c, m) ==
    /\ s # c
    /\ heap'[s].kind = "path"
    /\ IF As(heap, c) = 0
       THEN /\ s > Len(heap)
            /\ heap'[s].Err > Len(heap)
            /\ heap'[heap'[s].Err].kind = "wrap"
            /\ heap'[heap'[s].Err].msg = m
            /\ heap'[heap'[s].Err].Err = c
       ELSE s = As(heap, c)

Contains(text, m) ==
    \E i \in 0..(Len(text) - Len(m)) : SubSeq(text, i + 1, i + Len(m)) = m

\* the messages of the causes of err: of the errors at the end of its chains
RECURSIVE Leaves(_, _)
Leaves(h, err) ==
    IF err = 0 THEN {}
    ELSE IF h[err].kind = "plain" THEN {h[err].msg}
    ELSE IF h[err].kind = "multi"
    THEN UNION {Leaves(h, h[err].Errs[i]) : i \in 1..Len(h[err].Errs)}
    ELSE Leaves(h, h[err].Err)

\* the messages held below err: of its causes and of the wraps around them
RECURSIVE Messages(_, _)
Messages(h, err) ==
    IF err = 0 THEN {}
    ELSE IF h[err].kind = "plain" THEN {h[err].msg}
    ELSE IF h[err].kind = "wrap" THEN {h[err].msg} \cup Messages(h, h[err].Err)
    ELSE IF h[err].kind = "multi"
    THEN UNION {Messages(h, h[err].Errs[i]) : i \in 1..Len(h[err].Errs)}
    ELSE Messages(h, h[err].Err)

\* C11: each call of Wrap, Wrapf, WrapPath, WrapPathf, WithPath, WithQuery and
\* WithNodeAndColored returns an error whose Error() text holds the message
\* of every cause of the argument, every wrap message the argument's
\* PathError or MultiPathError already carried, and the message of the call.
C11_RenderKeepsMessages ==
    [][Called(WrapOps \cup PathOps \cup NodeOps) =>
          /\ ~panicked'
          /\ LET text == Error(heap', last'.ret)
                 err == last'.arg
             IN  /\ \A m \in Leaves(heap, err) \cup Messages(heap, As(heap, err)) :
                       Contains(text, m)
                 /\ Contains(text, last'.msg)]_vars

\* C11 but for the two defects: a call that does not crash and whose message
\* holds no verb keeps all these messages
C11_KeepsUnlessDefect ==
    [][(Called(WrapOps \cup PathOps \cup NodeOps) /\ ~panicked'
            /\ last'.msg \notin FmtMsgs) =>
          LET text == Error(heap', last'.ret)
              err == last'.arg
          IN  /\ \A m \in Leaves(heap, err) \cup Messages(heap, As(heap, err)) :
                    Contains(text, m)
              /\ Contains(text, last'.msg)]_vars

\* C12: PathError.Error() renders by strict priority: with a node attached
\* and an excerpt for the path, a line break, the excerpt (closed by a line
\* break) and the cause's text; otherwise, with a non-empty path,
\* "path: cause"; otherwise the bare text of the cause. A node that yields no
\* excerpt falls through to the two other forms.
C12_RenderPriority ==
    \A x \in 1..Len(heap) :
        heap[x].kind = "path" =>
            LET excerpt == yml(heap, x)
                cause == Error(heap, heap[x].Err)
                text == Error(heap, x)
            IN  /\ heap[x].Node = NoNode => excerpt = <<>>
                /\ excerpt # <<>> =>
                      /\ text[1] = "\n"
                      /\ SubSeq(text, 2, Len(excerpt) + 1) = excerpt
                      /\ text[Len(text) - Len(cause)] = "\n"
                      /\ SubSeq(text, Len(text) - Len(cause) + 1, Len(text)) = cause
                      /\ Len(text) <= Len(excerpt) + Len(cause) + 2
                /\ (excerpt = <<>> /\ heap[x].Path # <<>>) =>
                      text = heap[x].Path \o <<": ">> \o cause
                /\ (excerpt = <<>> /\ heap[x].Path = <<>>) => text = cause

\* a PathError with a node whose path first located an excerpt and, with one
\* more segment in front, no longer does: it renders as "path: cause"
C12_Witness ==
    /\ last.op = "WithPath"
    /\ ~panicked
    /\ heap[last.ret].kind = "path"
    /\ heap[last.ret].Node # NoNode
    /\ heap[last.ret].Path = <<".", "bar", ".", "foo">>
    /\ yml(heap, last.ret) = <<>>
    /\ yml([heap EXCEPT ![last.ret].Path = <<".", "foo">>], last.ret) # <<>>
    /\ Error(heap, last.ret) = <<".", "bar", ".", "foo", ": ", "a">>

\* c is s or lies on the cause chain of s
RECURSIVE Under(_, _, _)
Under(h, s, c) ==
    \/ s = c
    \/ s # 0 /\ h[s].kind \in {"path", "wrap"} /\ Under(h, h[s].Err, c)

EndsWith(path, suf) ==
    Len(path) >= Len(suf)
        /\ SubSeq(path, Len(path) - Len(suf) + 1, Len(path)) = suf

\* the texts of the errors es without their leading tabs, each once, in
\* order, one per line
RECURSIVE Listed(_, _)
Listed(h, es) ==
    IF es = <<>> THEN <<>>
    ELSE TrimLeft(Error(h, Head(es))) \o (IF Len(es) > 1 THEN <<"\n">> ELSE <<>>)
             \o Listed(h, Tail(es))

\* the text of MultiPathError e: the number of its children, then their texts
Counted(h, e) ==
    LET text == Error(h, e)
        n == Len(h[e].Errs)
    IN  /\ text[1] = <<"0", "1", "2", "3", "4">>[n + 1]
        /\ text[2] = (IF n = 1 THEN " error occurred:" ELSE " errors occurred:")
        /\ SubSeq(text, 3, Len(text)) = Listed(h, h[e].Errs) \o <<"\n\n">>

\* C13: no call, whether it returns or crashes, merges or loses children of
\* a MultiPathError: Errs keeps its length, slot i holds child i or the
\* PathError that stands for it (the one Wrapf returns for child i), every
\* PathError keeps its path as the tail of its path, and Error() renders the
\* number of children followed by the text of each child once, in order.
C13_ChildrenKept ==
    [][/\ \A e \in 1..Len(heap) :
             heap[e].kind = "multi" =>
                 /\ heap'[e].kind = "multi"
                 /\ Len(heap'[e].Errs) = Len(heap[e].Errs)
                 /\ \A i \in 1..Len(heap[e].Errs) :
                       LET c == heap[e].Errs[i]
                           s == heap'[e].Errs[i]
                       IN  /\ s # 0
                           /\ \/ Under(heap', s, c)
                              \/ s = As(heap, c)
       /\ \A x \in 1..Len(heap) :
             heap[x].kind = "path" =>
                 /\ heap'[x].kind = "path"
                 /\ EndsWith(heap'[x].Path, heap[x].Path)
       /\ \A e \in 1..Len(heap') :
             heap'[e].kind = "multi" => Counted(heap', e)]_vars

\* Wrap of a MultiPathError of two errors that were no PathError: both slots
\* now hold a PathError of their own and the text lists both
C13_Witness ==
    /\ last.op = "Wrap"
    /\ ~panicked
    /\ heap[last.ret].kind = "multi"
    /\ Len(heap[last.ret].Errs) = 2
    /\ heap[last.ret].Errs[1] # heap[last.ret].Errs[2]
    /\ \A i \in 1..2 : heap[last.ret].Errs[i] > last.ret
    /\ Error(heap, last.ret) =
          <<"2", " errors occurred:", "m", ": ", "a", "\n", "m", ": ", "b", "\n\n">>

\* the children that fail, in child order
Failing(outcomes) ==
    SelectSeq([i \in 1..Len(outcomes) |-> i], LAMBDA i : outcomes[i] = "fail")

\* the aggregate x holds exactly one entry per failing child, in child order
OneEntryPerFailure(x, outcomes) ==
    /\ x # 0
    /\ heap[x].kind = "multi"
    /\ Len(heap[x].Errs) = Len(Failing(outcomes))
    /\ \A k \in 1..Len(heap[x].Errs) :
          LET c == heap[x].Errs[k]
          IN  /\ heap[c].kind = "path"
              /\ heap[c].Path =
                    <<".", <<"0", "1", "2", "3">>[Failing(outcomes)[k]]>>
              /\ \A j \in 1..Len(heap[x].Errs) :
                    j # k => heap[x].Errs[j] # c

\* C14: And(children).Assert(actual) evaluates every child, returns nil iff
\* every child passes and otherwise a MultiPathError with exactly one entry
\* per failing child, in child order; with two failing children its text
\* starts "2 errors occurred:".
C14_AndCollectsAll ==
    last.op = "And" =>
        /\ last.seen = Len(last.str)
        /\ last.ret = 0 <=> Failing(last.str) = <<>>
        /\ last.ret # 0 => OneEntryPerFailure(last.ret, last.str)
        /\ Len(Failing(last.str)) = 2 =>
              SubSeq(Error(heap, last.ret), 1, 2) = <<"2", " errors occurred:">>

\* And over [A, B], both failing
C14_Witness ==
    /\ last.op = "And"
    /\ last.str = <<"fail", "fail">>
    /\ Len(heap[last.ret].Errs) = 2
    /\ Error(heap, last.ret) =
          <<"2", " errors occurred:", ".", "0", ": ", "a", "\n",
            ".", "1", ": ", "a", "\n\n">>

\* C15: Or(children).Assert(actual) returns nil when at least one child
\* passes; it returns an aggregate only when every child fails, and that
\* aggregate holds exactly one entry per child, in child order.
C15_OrNilIfAnyPasses ==
    last.op = "Or" =>
        /\ (\E i \in DOMAIN last.str : last.str[i] = "pass") => last.ret = 0
        /\ last.ret # 0 =>
              /\ \A i \in DOMAIN last.str : last.str[i] = "fail"
              /\ Len(heap[last.ret].Errs) = Len(last.str)
              /\ OneEntryPerFailure(last.ret, last.str)
        /\ (last.str # <<>> /\ \A i \in DOMAIN last.str : last.str[i] = "fail") =>
              last.ret # 0

\* Or over [A, B], both failing, as a later assertion of the program
C15_Witness ==
    /\ last.op = "Or"
    /\ last.str = <<"fail", "fail">>
    /\ last.ret # 0
    /\ Len(heap[last.ret].Errs) = 2
    /\ nOps > 1

----------------------------------------------------------------------------
(* frame conditions and algebra of the functions of errors/error.go *)

\* the call just made was given an error whose first Error is PathError x
OnPathError(x) ==
    /\ nOps' = nOps + 1
    /\ last'.arg # 0
    /\ As(heap, last'.arg) = x
    /\ heap[x].kind = "path"

\* the objects that existed before the call, x excepted, are as they were
OthersUnchanged(x) ==
    /\ Len(heap') = Len(heap)
    /\ \A y \in 1..Len(heap) : y # x => heap'[y] = heap[y]

\* C26: on a PathError, WithPath and WithQuery change the Path only (cause,
\* node and colour flag stay), Wrap and Wrapf change the cause only (Path,
\* node and colour flag stay, of every error that existed), and
\* WithNodeAndColored changes node and colour flag only; WithNodeAndColored
\* on an error that holds no PathError and no MultiPathError returns that
\* same error and neither changes nor allocates anything.
C26_OwnFieldOnly ==
    [][/\ \A x \in 1..Len(heap) : OnPathError(x) =>
              /\ last'.op \in {"WithPath", "WithQuery"} =>
                    /\ last'.ret = x
                    /\ heap'[x] = [heap[x] EXCEPT !.Path = heap'[x].Path]
                    /\ heap'[x].Path # heap[x].Path
                    /\ OthersUnchanged(x)
              /\ last'.op = "Wrap" =>
                    /\ Len(heap') >= Len(heap)
                    /\ \A y \in 1..Len(heap) :
                          /\ heap'[y].kind = heap[y].kind
                          /\ heap'[y].Path = heap[y].Path
                          /\ heap'[y].Node = heap[y].Node
                          /\ heap'[y].EnabledColor = heap[y].EnabledColor
              /\ last'.op = "WithNodeAndColored" =>
                    /\ last'.ret = x
                    /\ heap'[x] = [heap[x] EXCEPT !.Node = 1,
                                                  !.EnabledColor = TRUE]
                    /\ OthersUnchanged(x)
       /\ (/\ nOps' = nOps + 1
           /\ last'.op = "WithNodeAndColored"
           /\ As(heap, last'.arg) = 0)
             => /\ last'.ret = last'.arg
                /\ heap' = heap
                /\ ~panicked']_vars

\* Wrap was applied to a PathError that had a path, a node and the colour
\* flag: it still has them, and its cause is a newer error
C26_Witness ==
    /\ last.op = "Wrap"
    /\ last.ret = As(heap, last.arg)
    /\ heap[last.ret].kind = "path"
    /\ heap[last.ret].Path = <<".", "foo">>
    /\ heap[last.ret].Node = 1
    /\ heap[last.ret].EnabledColor
    /\ heap[last.ret].Err > last.ret

\* the accumulated paths of err: for each of its causes the path segments of
\* the PathErrors above it, outermost first
RECURSIVE AccPaths(_, _)
RECURSIVE AccPathsOf(_, _, _)
AccPathsOf(h, es, i) ==
    IF i > Len(es) THEN <<>> ELSE AccPaths(h, es[i]) \o AccPathsOf(h, es, i + 1)

AccPaths(h, err) ==
    IF err = 0 \/ h[err].kind = "plain" THEN <<<<>>>>
    ELSE IF h[err].kind = "wrap" THEN AccPaths(h, h[err].Err)
    ELSE IF h[err].kind = "multi" THEN AccPathsOf(h, h[err].Errs, 1)
    ELSE LET below == AccPaths(h, h[err].Err)
         IN  [i \in DOMAIN below |-> h[err].Path \o below[i]]

\* WithPath(Wrap(err, m), path) on the heap h
WithPathOfWrap(h, err, path, m) ==
    LET w == Wrap(h, err, m)
    IN  IF w.panic THEN w ELSE WithPath(w.h, w.ret, path)

\* C27: WrapPath(e, p, m) and WithPath(Wrap(e, m), p), applied to the same
\* error, return errors with the same Error() text and the same accumulated
\* paths, for a plain error, a PathError and a MultiPathError: the two leave
\* the very same error behind, or errors that differ in their structure but
\* neither in text nor in paths; where one crashes (a MultiPathError with a
\* MultiPathError child) so does the other.
C27_WrapPathIsWrapThenWithPath ==
    [][(nOps' = nOps + 1 /\ last'.op = "WrapPath") =>
          LET alt == WithPathOfWrap(heap, last'.arg, last'.str, last'.msg)
          IN  /\ panicked' = alt.panic
              /\ ~alt.panic =>
                    \/ alt.h = heap' /\ alt.ret = last'.ret
                    \/ /\ Error(heap', last'.ret) = Error(alt.h, alt.ret)
                       /\ AccPaths(heap', last'.ret) =
                              AccPaths(alt.h, alt.ret)]_vars

\* WrapPath was applied to a MultiPathError of a PathError: the child has
\* the segment in front of its path and the message around its cause
C27_Witness ==
    /\ last.op = "WrapPath"
    /\ last.ret = last.arg
    /\ heap[last.ret].kind = "multi"
    /\ \A i \in DOMAIN heap[last.ret].Errs :
          heap[heap[last.ret].Errs[i]].kind = "path"
    /\ AccPaths(heap, last.ret) = <<<<".", "bar", ".", "foo">>>>
    /\ Contains(Error(heap, last.ret),
                <<".", "bar", ".", "foo", ": ", "m", ": ", "a">>)

----------------------------------------------------------------------------
(* Errors *)

\* C28: Errors returns nil exactly when it is given no errors; given one or
\* more it returns a new MultiPathError whose children are the given errors,
\* in the given order, and which has no node; the given errors themselves
\* are left as they were.
C28_ErrorsKeepsList ==
    [][(nOps' = nOps + 1 /\ last'.op = "Errors") =>
          /\ (last'.ret = 0) <=> (last'.str = <<>>)
          /\ last'.ret = 0 => heap' = heap
          /\ last'.ret # 0 =>
                /\ last'.ret = Len(heap) + 1
                /\ Len(heap') = Len(heap) + 1
                /\ heap'[last'.ret].kind = "multi"
                /\ heap'[last'.ret].Errs = last'.str
                /\ heap'[last'.ret].Node = 0
                /\ \A x \in 1..Len(heap) : heap'[x] = heap[x]
          /\ ~panicked']_vars

\* Errors was given a newer error before an older one, and returned a
\* MultiPathError with the two in that order
C28_Witness ==
    /\ last.op = "Errors"
    /\ last.ret # 0
    /\ Len(last.str) = 2
    /\ last.str[1] > last.str[2]
    /\ heap[last.ret].Errs = last.str
    /\ heap[last.ret].Node = 0

====
